---- MODULE Spec2Model ----
(***************************************************************************)
(* Model of the pr-service reviewer assignment engine: the PRService       *)
(* workflows (CreatePR, PRMerge, PRReassign, TeamAdd, TeamGet,             *)
(* UsersSetIsActive) over the SQL repositories (teams, users,              *)
(* pull_requests, pr_reviewers).                                           *)
(*                                                                         *)
(* The persisted state is one record, db.  Every repository method is an   *)
(* operator from a db to [db, err, val]; every service method is an        *)
(* operator that chains repository calls exactly as the Go code does and   *)
(* returns [db, err, ret, calls]; the transaction manager commits the      *)
(* resulting db or keeps the one from before the call.                     *)
(***************************************************************************)
EXTENDS Integers, Sequences, FiniteSets, TLC

\* ------------------------------------------------------------------ bounds
MaxUsers == 3
MaxPRs == 1
MaxMembers == 3
MaxRequests == 4
MaxRetryAttempts == 2
MaxLiveRequests == 3

\* --------------------------------------------------------------- constants
\* uuid.Nil, the zero value of uuid.UUID; also SQL NULL for users.team_id
\* and pull_requests.merged_at (a nil pointer in the models).
NilID == 0

UserIDs == 1..MaxUsers
PRIDs == 1..MaxPRs
TeamNames == {"backend", "frontend"}

PRStatusOpen == "OPEN"
PRStatusMerged == "MERGED"

\* error values (nil, the repository's sentinel errors, the service's domain
\* errors, an unclassified driver error, and a nil-pointer panic)
NoErr == "nil"
ErrNotFound == "ErrNotFound"
ErrDuplicate == "ErrDuplicate"
ErrForeignKeyViolation == "ErrForeignKeyViolation"
ErrInvalidID == "ErrInvalidID"
ErrTxAborted == "ErrTxAborted"
ErrDB == "db error"
ErrNoAvailableReviewer == "ErrNoAvailableReviewer"
ErrCanNotReassing == "ErrCanNotReassing"
ErrTeamAlreadyExists == "ErrTeamAlreadyExists"
ErrNotAssinged == "ErrNotAssinged"
Panic == "panic: nil pointer dereference"

\* what the driver reports before the repository classifies it
PgNoRows == "pgx.ErrNoRows"
PgUniqueViolation == "SQLSTATE 23505"
PgForeignKeyViolation == "SQLSTATE 23503"
PgTxAborted == "SQLSTATE 25P02"

\* wrapDBError: the driver's error turned into the repository's sentinel error;
\* nil, a sentinel error and an unclassified error come back as they are.
wrapDBError(err) ==
    CASE err = PgNoRows -> ErrNotFound
      [] err = PgUniqueViolation -> ErrDuplicate
      [] err = PgForeignKeyViolation -> ErrForeignKeyViolation
      [] err = PgTxAborted -> ErrTxAborted
      [] OTHER -> err

\* ------------------------------------------------------------------- retry
\* The repository's sentinel errors.
Sentinels == {ErrNotFound, ErrDuplicate, ErrInvalidID, ErrForeignKeyViolation, ErrTxAborted}

\* fmt.Errorf("...: %w", e): an error whose Unwrap gives e.
Wrap(e) == "wrapped: " \o e

\* The errors that wrap a sentinel error.
Wrapped == {Wrap(s) : s \in Sentinels}

Unwrap(e) ==
    IF e \in Wrapped THEN CHOOSE s \in Sentinels : e = Wrap(s)
    ELSE NoErr

\* errors.Is(err, target): err or an error of its Unwrap chain is target.
ErrorsIs(err, target) == err = target \/ Unwrap(err) = target

\* Seeded fault: ErrTxAborted is missing from the list of unretryable errors.
isRetryableFuncNoTxAborted(err) ==
    ~\E u \in {ErrDuplicate, ErrNotFound, ErrInvalidID, ErrForeignKeyViolation} :
        ErrorsIs(err, u)

\* isRetryableFunc: false for an error that is one of unretryableErrors.
isRetryableFunc(err) ==
    LET unretryableErrors == <<ErrDuplicate, ErrNotFound, ErrInvalidID,
                               ErrForeignKeyViolation, ErrNotFound, ErrTxAborted>>
    IN  ~\E i \in DOMAIN unretryableErrors : ErrorsIs(err, unretryableErrors[i])

\* retry.Retrier.Do from attempt k on: unit[k] is the error the k-th execution of
\* the unit of work returns.  A nil error, an error the classifier calls not
\* retryable and the last attempt end the loop; the error observed last is returned.
RECURSIVE RetrierDoFrom(_, _, _)
RetrierDoFrom(maxAttempts, unit, k) ==
    IF unit[k] = NoErr \/ ~isRetryableFunc(unit[k]) \/ k >= maxAttempts
    THEN [err |-> unit[k], attempts |-> k]
    ELSE RetrierDoFrom(maxAttempts, unit, k + 1)

RetrierDo(maxAttempts, unit) == RetrierDoFrom(maxAttempts, unit, 1)

\* The error of the k-th execution of a statement whose first execution gave err.
\* The statements that the database rejects (unique or foreign key violation) are
\* issued on the transaction of the request (DefaultTrOrDB): the rejection aborts
\* the transaction and the database refuses every later statement of it.
Attempt(err, k) ==
    IF k > 1 /\ err \in {PgUniqueViolation, PgForeignKeyViolation} THEN PgTxAborted
    ELSE err

\* ----------------------------------------------------------------- helpers
Contains(s, x) == \E i \in DOMAIN s : s[i] = x

Count(s, x) == Cardinality({i \in DOMAIN s : s[i] = x})

Last(s) == s[Len(s)]

Min(a, b) == IF a < b THEN a ELSE b

\* The orders in which a query with no ORDER BY may return the rows S.
RowOrders(S) ==
    {s \in [1..Cardinality(S) -> S] : \A i, j \in 1..Cardinality(S) : s[i] = s[j] => i = j}

\* The rows of `order` that satisfy Keep, in that order.
RECURSIVE Filter(_, _)
Filter(order, keep) ==
    IF order = <<>> THEN <<>>
    ELSE IF Head(order) \in keep
         THEN <<Head(order)>> \o Filter(Tail(order), keep)
         ELSE Filter(Tail(order), keep)

\* ------------------------------------------------------------------- models
\* models.PullRequest; the zero value is what &models.PullRequest{} holds.
ZeroPR == [id |-> NilID, author |-> NilID, status |-> "", mergedAt |-> NilID,
           reviewers |-> <<>>]

\* models.User
ZeroUser == [id |-> NilID, team |-> NilID, active |-> FALSE]

\* models.Team; members is a sequence of models.User
ZeroTeam == [id |-> NilID, name |-> "", members |-> <<>>]

\* ------------------------------------------------------------ persisted state
\* db.teams  : sequence of team names; the row's id is its index
\* db.users  : sequence of [team, active]; the row's id is its index
\* db.prs    : function from the ids of the stored PRs to [author, status, mergedAt]
\* db.revs   : set of <<pull_request_id, id>> rows of pr_reviewers
\* db.clock  : the latest timestamp time.Now() has handed to a stored row
\* prevMerge : <<>>, or <<the answer>> of the request before this one when that
\*             request was a PRMerge that returned no error
\* served    : the number of requests served so far
\* cfg       : the configuration read at start (cfg.Retry.MaxAttempts)
\* inflight  : <<>>, or <<the request that has started and not yet returned>>
VARIABLES db, last, prevMerge, served, cfg, inflight

vars == <<db, last, prevMerge, served, cfg, inflight>>

TeamIDs(d) == DOMAIN d.teams

UserExists(d, id) == id \in DOMAIN d.users

PRExists(d, id) == id \in DOMAIN d.prs

ReviewersOf(d, prID) == {r[2] : r \in {x \in d.revs : x[1] = prID}}

ActiveOf(d, teamID) ==
    {u \in DOMAIN d.users : d.users[u].team = teamID /\ d.users[u].active}

MembersOf(d, teamID) == {u \in DOMAIN d.users : d.users[u].team = teamID}

\* The record of one repository call a service method made: the method, its
\* arguments and what it returned (res).
Call(fn, args, res) ==
    [fn |-> fn, args |-> args, err |-> res.err, val |-> res.val,
     attempts |-> res.attempts]

\* Seeded fault: the retrier is built with one attempt more than configured.
MaxAttemptsPlusOne(c) == c.MaxAttempts + 1

\* retry.WithMaxAttempts(cfg.MaxAttempts): the attempts the repositories' retrier
\* is built with.
MaxAttemptsOf(c) == c.MaxAttempts

\* What every repository call returns: the state it leaves, the error the retrier
\* returned for its unit of work passed through wrapDBError, its value, and the
\* number of times the unit of work ran.  err is the error of the first run.
Res(d, err, val) ==
    LET r == RetrierDo(MaxAttemptsOf(cfg),
                       [k \in 1..MaxAttemptsOf(cfg) |-> Attempt(err, k)])
    IN  [db |-> d, err |-> wrapDBError(r.err), val |-> val, attempts |-> r.attempts]

\* ------------------------------------------------------- repository: pull requests
\* `fault` is true when the statement fails with an unclassified driver error on
\* every attempt the retrier makes; the statement then has no effect.

\* Seeded fault: an insert that overwrites the row of a taken id.
PRRepoCreateUpsert(d, pr, fault) ==
    IF fault THEN Res(d, ErrDB, NilID)
    ELSE IF ~UserExists(d, pr.author) THEN Res(d, PgForeignKeyViolation, NilID)
    ELSE Res([d EXCEPT !.prs = [i \in DOMAIN d.prs \cup {pr.id} |->
                         IF i = pr.id
                         THEN [author |-> pr.author, status |-> pr.status,
                               mergedAt |-> NilID]
                         ELSE d.prs[i]]],
             NoErr, NilID)

\* INSERT INTO pull_requests (id, name, author_id, status, created_at)
PRRepoCreate(d, pr, fault) ==
    IF fault THEN Res(d, ErrDB, NilID)
    ELSE IF PRExists(d, pr.id) THEN Res(d, PgUniqueViolation, NilID)
    ELSE IF ~UserExists(d, pr.author) THEN Res(d, PgForeignKeyViolation, NilID)
    ELSE Res([d EXCEPT !.prs = [i \in DOMAIN d.prs \cup {pr.id} |->
                         IF i = pr.id
                         THEN [author |-> pr.author, status |-> pr.status,
                               mergedAt |-> NilID]
                         ELSE d.prs[i]]],
             NoErr, NilID)

\* SELECT ... FROM pull_requests pr LEFT JOIN pr_reviewers r ... WHERE pr.id = id.
\* The rows are scanned in a loop: no row leaves the zero PullRequest and a nil
\* error.  `order` is the order in which the joined rows come back.
PRRepoGetByID(d, id, order, fault) ==
    IF fault THEN Res(d, ErrDB, ZeroPR)
    ELSE IF ~PRExists(d, id) THEN Res(d, NoErr, ZeroPR)
    ELSE Res(d, NoErr,
             [id |-> id, author |-> d.prs[id].author, status |-> d.prs[id].status,
              mergedAt |-> d.prs[id].mergedAt,
              reviewers |-> Filter(order, ReviewersOf(d, id))])

\* Seeded fault: the DELETE is missing, the rows are added to the ones stored.
AssignReviewersAppend(d, prID, reviewers, fault) ==
    IF fault THEN Res(d, ErrDB, NilID)
    ELSE IF \E i, j \in DOMAIN reviewers : i # j /\ reviewers[i] = reviewers[j]
         THEN Res(d, PgUniqueViolation, NilID)
    ELSE IF ~PRExists(d, prID) \/ \E i \in DOMAIN reviewers : ~UserExists(d, reviewers[i])
         THEN Res(d, PgForeignKeyViolation, NilID)
    ELSE Res([d EXCEPT !.revs = d.revs \cup {<<prID, reviewers[i]>> : i \in DOMAIN reviewers}],
             NoErr, NilID)

\* DELETE FROM pr_reviewers WHERE pull_request_id = prID, then one INSERT per id.
AssignReviewers(d, prID, reviewers, fault) ==
    IF fault THEN Res(d, ErrDB, NilID)
    ELSE IF \E i, j \in DOMAIN reviewers : i # j /\ reviewers[i] = reviewers[j]
         THEN Res(d, PgUniqueViolation, NilID)
    ELSE IF ~PRExists(d, prID) \/ \E i \in DOMAIN reviewers : ~UserExists(d, reviewers[i])
         THEN Res(d, PgForeignKeyViolation, NilID)
    ELSE Res([d EXCEPT !.revs = {r \in d.revs : r[1] # prID}
                                 \cup {<<prID, reviewers[i]>> : i \in DOMAIN reviewers}],
             NoErr, NilID)

\* Seeded fault: the number of deleted rows is not looked at.
ReplaceReviewerNoCheck(d, prID, oldID, newID, fault) ==
    IF fault THEN Res(d, ErrDB, NilID)
    ELSE IF ~UserExists(d, newID) THEN Res(d, PgForeignKeyViolation, NilID)
    ELSE Res([d EXCEPT !.revs = (d.revs \ {<<prID, oldID>>}) \cup {<<prID, newID>>}],
             NoErr, NilID)

\* DELETE the (prID, oldID) row; no row deleted is ErrNotFound; then
\* INSERT (prID, newID) ... ON CONFLICT DO NOTHING.
ReplaceReviewer(d, prID, oldID, newID, fault) ==
    IF fault THEN Res(d, ErrDB, NilID)
    ELSE IF <<prID, oldID>> \notin d.revs THEN Res(d, ErrNotFound, NilID)
    ELSE IF ~UserExists(d, newID) THEN Res(d, PgForeignKeyViolation, NilID)
    ELSE Res([d EXCEPT !.revs = (d.revs \ {<<prID, oldID>>}) \cup {<<prID, newID>>}],
             NoErr, NilID)

\* UPDATE pull_requests SET status = 'MERGED', merged_at = now WHERE id = id.
\* An update that matches no row is no error.
Merge(d, id, fault) ==
    IF fault THEN Res(d, ErrDB, NilID)
    ELSE IF ~PRExists(d, id) THEN Res(d, NoErr, NilID)
    ELSE Res([d EXCEPT !.prs[id].status = PRStatusMerged,
                       !.prs[id].mergedAt = d.clock + 1,
                       !.clock = d.clock + 1],
             NoErr, NilID)

\* ---------------------------------------------------------------- repository: users
UserOf(d, id) == [id |-> id, team |-> d.users[id].team, active |-> d.users[id].active]

\* SELECT ... FROM users WHERE id = id; QueryRow.Scan: no row is ErrNotFound.
GetUserByID(d, id, fault) ==
    IF fault THEN Res(d, ErrDB, ZeroUser)
    ELSE IF ~UserExists(d, id) THEN Res(d, PgNoRows, ZeroUser)
    ELSE Res(d, NoErr, UserOf(d, id))

\* SELECT ... FROM users WHERE team_id = teamID AND is_active = true
GetActiveByTeam(d, teamID, order, fault) ==
    IF fault THEN Res(d, ErrDB, <<>>)
    ELSE Res(d, NoErr, Filter(order, ActiveOf(d, teamID)))

\* Seeded fault: the members query keeps the is_active filter.
GetByTeamActiveOnly(d, teamID, order, fault) ==
    IF fault THEN Res(d, ErrDB, <<>>)
    ELSE Res(d, NoErr, Filter(order, ActiveOf(d, teamID)))

\* SELECT ... FROM users WHERE team_id = teamID
GetByTeam(d, teamID, order, fault) ==
    IF fault THEN Res(d, ErrDB, <<>>)
    ELSE Res(d, NoErr, Filter(order, MembersOf(d, teamID)))

\* INSERT INTO users (team_id, name, is_active) ... RETURNING id: the id of the
\* row is the one the database generates, not the one in the model.
UserRepoCreate(d, user, fault) ==
    IF fault THEN Res(d, ErrDB, NilID)
    ELSE IF user.team # NilID /\ user.team \notin TeamIDs(d)
         THEN Res(d, PgForeignKeyViolation, NilID)
    ELSE Res([d EXCEPT !.users = Append(d.users, [team |-> user.team,
                                                  active |-> user.active])],
             NoErr, Len(d.users) + 1)

\* UPDATE users SET is_active = active WHERE id = id
UpdateActive(d, id, active, fault) ==
    IF fault THEN Res(d, ErrDB, NilID)
    ELSE IF ~UserExists(d, id) THEN Res(d, NoErr, NilID)
    ELSE Res([d EXCEPT !.users[id].active = active], NoErr, NilID)

\* ---------------------------------------------------------------- repository: teams
TeamIDByName(d, name) == CHOOSE i \in DOMAIN d.teams : d.teams[i] = name

\* INSERT INTO teams (name) ... RETURNING id; a taken name is ErrDuplicate.
TeamRepoCreate(d, name, fault) ==
    IF fault THEN Res(d, ErrDB, NilID)
    ELSE IF Contains(d.teams, name) THEN Res(d, PgUniqueViolation, NilID)
    ELSE Res([d EXCEPT !.teams = Append(d.teams, name)], NoErr, Len(d.teams) + 1)

\* SELECT id, name FROM teams WHERE name = name; no row is ErrNotFound.
GetByName(d, name, fault) ==
    IF fault THEN Res(d, ErrDB, ZeroTeam)
    ELSE IF ~Contains(d.teams, name) THEN Res(d, PgNoRows, ZeroTeam)
    ELSE Res(d, NoErr, [id |-> TeamIDByName(d, name), name |-> name, members |-> <<>>])

\* ------------------------------------------------------------------------ service
\* What a service method leaves: the state inside its transaction, its error,
\* the object it hands to the caller (<<>> is nil) and the repository calls it made.
SRes(d, err, ret, calls) == [db |-> d, err |-> err, ret |-> ret, calls |-> calls]

\* Seeded fault: what fn did is kept whatever it returns.
TxDoCommitAlways(before, r) == r.db

\* trManager.Do: commit what fn did when it returns nil, roll it back otherwise.
TxDo(before, r) == IF r.err = NoErr THEN r.db ELSE before

\* Seeded fault: the cut keeps three users of the pool.
SliceTo3(activeUsers) ==
    IF Len(activeUsers) > 3 THEN SubSeq(activeUsers, 1, 3) ELSE activeUsers

\* Seeded fault: the pool is not cut.
SliceNone(activeUsers) == activeUsers

\* Seeded fault: the cut keeps the last two users of the pool.
SliceLast2(activeUsers) ==
    IF Len(activeUsers) > 2
    THEN SubSeq(activeUsers, Len(activeUsers) - 1, Len(activeUsers))
    ELSE activeUsers

\* "slice to 2": activeUsers[:2] when there are more than two.
SliceTo2(activeUsers) ==
    IF Len(activeUsers) > 2 THEN SubSeq(activeUsers, 1, 2) ELSE activeUsers

\* CreatePR's body.  `fault` is the number of the repository call that fails
\* with a driver error (0: none).
CreatePR(d, pr, poolOrder, fault) ==
    LET c1 == PRRepoCreate(d, pr, fault = 1)
        l1 == <<Call("PRRepo.Create", <<pr.id, pr.author>>, c1)>>
    IN  IF c1.err # NoErr THEN SRes(c1.db, c1.err, <<pr>>, l1)
        ELSE
        LET c2 == GetUserByID(c1.db, pr.author, fault = 2)
            l2 == Append(l1, Call("UserRepo.GetUserByID", <<pr.author>>, c2))
            author == c2.val
        IN  IF c2.err # NoErr THEN SRes(c2.db, c2.err, <<pr>>, l2)
            ELSE IF author.team = NilID THEN SRes(c2.db, Panic, <<pr>>, l2)
            ELSE
            LET c3 == GetActiveByTeam(c2.db, author.team, poolOrder, fault = 3)
                l3 == Append(l2, Call("UserRepo.GetActiveByTeam", <<author.team>>, c3))
                uuids == SliceTo2(c3.val)
            IN  IF c3.err # NoErr THEN SRes(c3.db, c3.err, <<pr>>, l3)
                ELSE
                LET c4 == AssignReviewers(c3.db, pr.id, uuids, fault = 4)
                    l4 == Append(l3, Call("PRRepo.AssignReviewers", <<pr.id, uuids>>, c4))
                IN  IF c4.err # NoErr THEN SRes(c4.db, c4.err, <<pr>>, l4)
                    ELSE SRes(c4.db, NoErr, <<pr>>, l4)

\* Seeded fault: PRMerge always takes the "PR already merged" branch.
AlreadyMergedAlways(pr) == TRUE

\* Seeded fault: PRMerge never takes the "PR already merged" branch.
AlreadyMergedNever(pr) == FALSE

\* PRMerge: pr.Status == string(models.PRStatusMerged)
AlreadyMerged(pr) == pr.status = PRStatusMerged

\* Seeded fault: the error of PRRepo.Merge is logged and not returned.
PRMergeIgnoreMergeErr(d, id, revOrder, fault) ==
    LET c1 == PRRepoGetByID(d, id, revOrder, fault = 1)
        l1 == <<Call("PRRepo.GetByID", <<id>>, c1)>>
        pr == c1.val
    IN  IF c1.err # NoErr THEN SRes(c1.db, c1.err, <<>>, l1)
        ELSE IF AlreadyMerged(pr) THEN SRes(c1.db, NoErr, <<pr>>, l1)
        ELSE
        LET c2 == Merge(c1.db, id, fault = 2)
            l2 == Append(l1, Call("PRRepo.Merge", <<id>>, c2))
        IN  SRes(c2.db, NoErr, <<pr>>, l2)

\* Seeded fault: the fetched PR is returned together with the error.
PRMergeKeepsPR(d, id, revOrder, fault) ==
    LET c1 == PRRepoGetByID(d, id, revOrder, fault = 1)
        l1 == <<Call("PRRepo.GetByID", <<id>>, c1)>>
        pr == c1.val
    IN  IF c1.err # NoErr THEN SRes(c1.db, c1.err, <<>>, l1)
        ELSE IF AlreadyMerged(pr) THEN SRes(c1.db, NoErr, <<pr>>, l1)
        ELSE
        LET c2 == Merge(c1.db, id, fault = 2)
            l2 == Append(l1, Call("PRRepo.Merge", <<id>>, c2))
        IN  IF c2.err # NoErr THEN SRes(c2.db, c2.err, <<pr>>, l2)
            ELSE SRes(c2.db, NoErr, <<pr>>, l2)

\* PRMerge's body; the caller gets nil when the transaction returned an error.
\* The fetch sees d; the update runs on dw, the committed state at the time it
\* executes.
PRMergeOn(d, dw, id, revOrder, fault) ==
    LET c1 == PRRepoGetByID(d, id, revOrder, fault = 1)
        l1 == <<Call("PRRepo.GetByID", <<id>>, c1)>>
        pr == c1.val
    IN  IF c1.err # NoErr THEN SRes(c1.db, c1.err, <<>>, l1)
        ELSE IF AlreadyMerged(pr) THEN SRes(c1.db, NoErr, <<pr>>, l1)
        ELSE
        LET c2 == Merge(dw, id, fault = 2)
            l2 == Append(l1, Call("PRRepo.Merge", <<id>>, c2))
        IN  IF c2.err # NoErr THEN SRes(c2.db, c2.err, <<>>, l2)
            ELSE SRes(c2.db, NoErr, <<pr>>, l2)

\* PRMerge with no other request between its fetch and its update.
PRMerge(d, id, revOrder, fault) == PRMergeOn(d, d, id, revOrder, fault)

\* Seeded fault: PRReassign never takes the "can not reassing, pr is merged" branch.
IsMergedNever(pr) == FALSE

\* PRReassign: pr.Status == string(models.PRStatusMerged)
IsMerged(pr) == pr.status = PRStatusMerged

\* Seeded fault: the old reviewer always counts as found.
IsAssignedAlways(reviewers, oldUserID) == TRUE

\* "Check if old reviewer is assigned to PR": the loop that sets `found`.
IsAssigned(reviewers, oldUserID) == Contains(reviewers, oldUserID)

\* Seeded fault: the uuid.Nil test never fires.
NoneFoundNever(newUserID) == FALSE

\* newUserID == uuid.Nil
NoneFound(newUserID) == newUserID = NilID

\* Seeded fault: the search skips oldUserID only, not the users already reviewing.
RECURSIVE SearchNewUserNoSkip(_, _, _)
SearchNewUserNoSkip(users, oldUserID, reviewers) ==
    IF users = <<>> THEN NilID
    ELSE IF Head(users) # oldUserID THEN Head(users)
    ELSE SearchNewUserNoSkip(Tail(users), oldUserID, reviewers)

\* Seeded fault: a later match overwrites an earlier one (no break in the loop).
RECURSIVE SearchNewUserLast(_, _, _)
SearchNewUserLast(users, oldUserID, reviewers) ==
    IF users = <<>> THEN NilID
    ELSE IF Last(users) # oldUserID /\ ~Contains(reviewers, Last(users))
         THEN Last(users)
         ELSE SearchNewUserLast(SubSeq(users, 1, Len(users) - 1), oldUserID, reviewers)

\* "Search for another active user": the first user of the pool that is not
\* oldUserID and not among the reviewers; uuid.Nil when there is none.
RECURSIVE SearchNewUser(_, _, _)
SearchNewUser(users, oldUserID, reviewers) ==
    IF users = <<>> THEN NilID
    ELSE IF Head(users) # oldUserID /\ ~Contains(reviewers, Head(users))
         THEN Head(users)
         ELSE SearchNewUser(Tail(users), oldUserID, reviewers)

\* Seeded fault: the old reviewer is not dropped from the in-memory list.
NewReviewersKeepOld(reviewers, oldUserID, newUserID) == Append(reviewers, newUserID)

\* The in-memory list after the replace: the old reviewer dropped, the new one last.
NewReviewers(reviewers, oldUserID, newUserID) ==
    Append(SelectSeq(reviewers, LAMBDA r : r # oldUserID), newUserID)

\* Seeded fault: the "reviewer is not assigned" check comes before the merged check.
PRReassignOnAssignedFirst(d, dw, prID, oldUserID, revOrder, poolOrder, fault) ==
    LET c1 == PRRepoGetByID(d, prID, revOrder, fault = 1)
        l1 == <<Call("PRRepo.GetByID", <<prID>>, c1)>>
        pr == c1.val
    IN  IF c1.err # NoErr THEN SRes(c1.db, c1.err, <<>>, l1)
        ELSE IF ~IsAssigned(pr.reviewers, oldUserID) THEN SRes(c1.db, ErrNotAssinged, <<>>, l1)
        ELSE IF IsMerged(pr) THEN SRes(c1.db, ErrCanNotReassing, <<>>, l1)
        ELSE
        LET c2 == GetUserByID(c1.db, pr.author, fault = 2)
            l2 == Append(l1, Call("UserRepo.GetUserByID", <<pr.author>>, c2))
            author == c2.val
        IN  IF c2.err # NoErr THEN SRes(c2.db, c2.err, <<>>, l2)
            ELSE IF author.team = NilID THEN SRes(c2.db, Panic, <<>>, l2)
            ELSE
            LET c3 == GetActiveByTeam(c2.db, author.team, poolOrder, fault = 3)
                l3 == Append(l2, Call("UserRepo.GetActiveByTeam", <<author.team>>, c3))
                newUserID == SearchNewUser(c3.val, oldUserID, pr.reviewers)
            IN  IF c3.err # NoErr THEN SRes(c3.db, c3.err, <<>>, l3)
                ELSE IF NoneFound(newUserID) THEN SRes(c3.db, ErrNoAvailableReviewer, <<>>, l3)
                ELSE
                LET c4 == ReplaceReviewer(dw, prID, oldUserID, newUserID, fault = 4)
                    l4 == Append(l3, Call("PRRepo.ReplaceReviewer",
                                          <<prID, oldUserID, newUserID>>, c4))
                IN  IF c4.err # NoErr THEN SRes(c4.db, c4.err, <<>>, l4)
                    ELSE SRes(c4.db, NoErr,
                              <<[pr EXCEPT !.reviewers =
                                     NewReviewers(pr.reviewers, oldUserID, newUserID)]>>,
                              l4)

\* PRReassign's body.  The three reads see d; the replace statement runs on dw,
\* the committed state at the time it executes (the transaction holds no lock
\* before it, and each statement reads what is committed when it runs).
PRReassignOn(d, dw, prID, oldUserID, revOrder, poolOrder, fault) ==
    LET c1 == PRRepoGetByID(d, prID, revOrder, fault = 1)
        l1 == <<Call("PRRepo.GetByID", <<prID>>, c1)>>
        pr == c1.val
    IN  IF c1.err # NoErr THEN SRes(c1.db, c1.err, <<>>, l1)
        ELSE IF IsMerged(pr) THEN SRes(c1.db, ErrCanNotReassing, <<>>, l1)
        ELSE IF ~IsAssigned(pr.reviewers, oldUserID) THEN SRes(c1.db, ErrNotAssinged, <<>>, l1)
        ELSE
        LET c2 == GetUserByID(c1.db, pr.author, fault = 2)
            l2 == Append(l1, Call("UserRepo.GetUserByID", <<pr.author>>, c2))
            author == c2.val
        IN  IF c2.err # NoErr THEN SRes(c2.db, c2.err, <<>>, l2)
            ELSE IF author.team = NilID THEN SRes(c2.db, Panic, <<>>, l2)
            ELSE
            LET c3 == GetActiveByTeam(c2.db, author.team, poolOrder, fault = 3)
                l3 == Append(l2, Call("UserRepo.GetActiveByTeam", <<author.team>>, c3))
                newUserID == SearchNewUser(c3.val, oldUserID, pr.reviewers)
            IN  IF c3.err # NoErr THEN SRes(c3.db, c3.err, <<>>, l3)
                ELSE IF NoneFound(newUserID) THEN SRes(c3.db, ErrNoAvailableReviewer, <<>>, l3)
                ELSE
                LET c4 == ReplaceReviewer(dw, prID, oldUserID, newUserID, fault = 4)
                    l4 == Append(l3, Call("PRRepo.ReplaceReviewer",
                                          <<prID, oldUserID, newUserID>>, c4))
                IN  IF c4.err # NoErr THEN SRes(c4.db, c4.err, <<>>, l4)
                    ELSE SRes(c4.db, NoErr,
                              <<[pr EXCEPT !.reviewers =
                                     NewReviewers(pr.reviewers, oldUserID, newUserID)]>>,
                              l4)

\* PRReassign with no other request between its reads and its write.
PRReassign(d, prID, oldUserID, revOrder, poolOrder, fault) ==
    PRReassignOn(d, d, prID, oldUserID, revOrder, poolOrder, fault)

\* Seeded fault: a member that cannot be created is skipped and the loop goes on.
RECURSIVE CreateMembersSkipFailed(_, _, _, _, _)
CreateMembersSkipFailed(d, team, i, calls, fault) ==
    IF i > Len(team.members) THEN SRes(d, NoErr, <<team>>, calls)
    ELSE
    LET m == [team.members[i] EXCEPT !.team = team.id]
        c == UserRepoCreate(d, m, fault = i + 1)
        l == Append(calls, Call("UserRepo.Create", <<i, m.team, m.active>>, c))
        created == [team EXCEPT !.members[i] = [m EXCEPT !.id = c.val]]
    IN  CreateMembersSkipFailed(c.db, created, i + 1, l, fault)

\* Seeded fault: the member's TeamID is left as the request carried it.
RECURSIVE CreateMembersNoTeamID(_, _, _, _, _)
CreateMembersNoTeamID(d, team, i, calls, fault) ==
    IF i > Len(team.members) THEN SRes(d, NoErr, <<team>>, calls)
    ELSE
    LET m == team.members[i]
        c == UserRepoCreate(d, m, fault = i + 1)
        l == Append(calls, Call("UserRepo.Create", <<i, m.team, m.active>>, c))
        created == [team EXCEPT !.members[i] = [m EXCEPT !.id = c.val]]
    IN  IF c.err # NoErr
        THEN SRes(c.db, c.err, <<[team EXCEPT !.members[i] = m]>>, l)
        ELSE CreateMembersNoTeamID(c.db, created, i + 1, l, fault)

\* TeamAdd's loop over team.Members from member i on: set the member's TeamID,
\* create it, return at the first error.
RECURSIVE CreateMembers(_, _, _, _, _)
CreateMembers(d, team, i, calls, fault) ==
    IF i > Len(team.members) THEN SRes(d, NoErr, <<team>>, calls)
    ELSE
    LET m == [team.members[i] EXCEPT !.team = team.id]
        c == UserRepoCreate(d, m, fault = i + 1)
        l == Append(calls, Call("UserRepo.Create", <<i, m.team, m.active>>, c))
        created == [team EXCEPT !.members[i] = [m EXCEPT !.id = c.val]]
    IN  IF c.err # NoErr
        THEN SRes(c.db, c.err, <<[team EXCEPT !.members[i] = m]>>, l)
        ELSE CreateMembers(c.db, created, i + 1, l, fault)

\* TeamAdd's body.
TeamAdd(d, team, fault) ==
    LET c1 == TeamRepoCreate(d, team.name, fault = 1)
        l1 == <<Call("TeamRepo.Create", <<team.name>>, c1)>>
    IN  IF c1.err = ErrDuplicate THEN SRes(c1.db, ErrTeamAlreadyExists, <<team>>, l1)
        ELSE IF c1.err # NoErr THEN SRes(c1.db, c1.err, <<team>>, l1)
        ELSE CreateMembers(c1.db, [team EXCEPT !.id = c1.val], 1, l1, fault)

\* TeamGet: the team by name, then its members attached.
TeamGet(d, teamName, order, fault) ==
    LET c1 == GetByName(d, teamName, fault = 1)
        l1 == <<Call("TeamRepo.GetByName", <<teamName>>, c1)>>
        team == c1.val
    IN  IF c1.err # NoErr THEN SRes(c1.db, c1.err, <<>>, l1)
        ELSE
        LET c2 == GetByTeam(c1.db, team.id, order, fault = 2)
            l2 == Append(l1, Call("UserRepo.GetByTeam", <<team.id>>, c2))
        IN  IF c2.err # NoErr THEN SRes(c2.db, c2.err, <<>>, l2)
            ELSE SRes(c2.db, NoErr, <<[team EXCEPT !.members = c2.val]>>, l2)

\* UsersSetIsActive: update the flag, then read the user back.
UsersSetIsActive(d, userID, active, fault) ==
    LET c1 == UpdateActive(d, userID, active, fault = 1)
        l1 == <<Call("UserRepo.UpdateActive", <<userID, active>>, c1)>>
    IN  IF c1.err # NoErr THEN SRes(c1.db, c1.err, <<>>, l1)
        ELSE
        LET c2 == GetUserByID(c1.db, userID, fault = 2)
            l2 == Append(l1, Call("UserRepo.GetUserByID", <<userID>>, c2))
        IN  IF c2.err # NoErr THEN SRes(c2.db, c2.err, <<>>, l2)
            ELSE SRes(c2.db, NoErr, <<c2.val>>, l2)

\* --------------------------------------------------------------- the state machine
\* last: the request being answered: the method, its arguments, what it returned
\* and the repository calls it made; Idle between two requests.
Served(op, args, r) ==
    [op |-> op, args |-> args, err |-> r.err, ret |-> r.ret, calls |-> r.calls]

Idle == [op |-> "none", args |-> <<>>, err |-> NoErr, ret |-> <<>>, calls |-> <<>>]

\* A user whose team_id is NULL: users.team_id is nullable (ON DELETE SET NULL).
TeamlessUser == [team |-> NilID, active |-> TRUE]

Init ==
    /\ \E seeded \in {<<>>, <<TeamlessUser>>} :
          db = [teams |-> <<>>, users |-> seeded, prs |-> <<>>, revs |-> {}, clock |-> 0]
    /\ last = Idle
    /\ prevMerge = <<>>
    /\ served = 0
    /\ cfg \in [MaxAttempts : 1..MaxRetryAttempts]
    /\ inflight = <<>>

\* The team of a stored user, NULL for a user that is not stored.
TeamOfUser(d, id) == IF UserExists(d, id) THEN d.users[id].team ELSE NilID

AuthorOfPR(d, id) == IF PRExists(d, id) THEN d.prs[id].author ELSE NilID

\* The repository calls a request makes when no statement fails: the calls a
\* driver error can hit are numbered 1..NCalls(r).
NCalls(r) == Len(r.calls)

\* POST /pullRequest/create: the handler builds the PR with status OPEN.
DoCreatePR ==
    /\ last = Idle
    /\ served < MaxRequests
    /\ served' = served + 1
    /\ UNCHANGED <<cfg, inflight>>
    /\ \E id \in PRIDs, author \in UserIDs :
      \E poolOrder \in RowOrders(ActiveOf(db, TeamOfUser(db, author))) :
        LET pr == [ZeroPR EXCEPT !.id = id, !.author = author, !.status = PRStatusOpen]
        IN  \E fault \in 0..NCalls(CreatePR(db, pr, poolOrder, 0)) :
              LET r == CreatePR(db, pr, poolOrder, fault)
              IN  /\ db' = TxDo(db, r)
                  /\ last' = Served("CreatePR", <<id, author>>, r)
                  /\ prevMerge' = <<>>

\* POST /pullRequest/merge
DoPRMerge ==
    /\ last = Idle
    /\ served < MaxRequests
    /\ served' = served + 1
    /\ UNCHANGED <<cfg, inflight>>
    /\ \E id \in PRIDs :
      \E revOrder \in RowOrders(ReviewersOf(db, id)) :
        \E fault \in 0..NCalls(PRMerge(db, id, revOrder, 0)) :
          LET r == PRMerge(db, id, revOrder, fault)
          IN  /\ db' = TxDo(db, r)
              /\ last' = Served("PRMerge", <<id>>, r)
              /\ prevMerge' = IF r.err = NoErr THEN <<Served("PRMerge", <<id>>, r)>>
                              ELSE <<>>

\* POST /pullRequest/reassign
DoPRReassign ==
    /\ last = Idle
    /\ served < MaxRequests
    /\ served' = served + 1
    /\ UNCHANGED <<cfg, inflight>>
    /\ \E prID \in PRIDs, oldUserID \in UserIDs :
      \E revOrder \in RowOrders(ReviewersOf(db, prID)),
         poolOrder \in RowOrders(ActiveOf(db, TeamOfUser(db, AuthorOfPR(db, prID)))) :
        \E fault \in 0..NCalls(PRReassign(db, prID, oldUserID, revOrder, poolOrder, 0)) :
          LET r == PRReassign(db, prID, oldUserID, revOrder, poolOrder, fault)
          IN  /\ db' = TxDo(db, r)
              /\ last' = Served("PRReassign", <<prID, oldUserID>>, r)
              /\ prevMerge' = <<>>

\* The member lists a request may carry: up to MaxMembers users, each active or not.
MemberLists ==
    UNION {[1..n -> {[ZeroUser EXCEPT !.active = a] : a \in BOOLEAN}] : n \in 0..MaxMembers}

\* POST /team/add
DoTeamAdd ==
    /\ last = Idle
    /\ served < MaxRequests
    /\ served' = served + 1
    /\ UNCHANGED <<cfg, inflight>>
    /\ \E name \in TeamNames, members \in MemberLists :
      LET team == [ZeroTeam EXCEPT !.name = name, !.members = members]
      IN  /\ Len(db.users) + Len(members) <= MaxUsers
          /\ \E fault \in 0..NCalls(TeamAdd(db, team, 0)) :
            LET r == TeamAdd(db, team, fault)
            IN  /\ db' = TxDo(db, r)
                /\ last' = Served("TeamAdd", <<name, members>>, r)
                /\ prevMerge' = <<>>

\* GET /team/get; TeamGet opens no transaction.
DoTeamGet ==
    /\ last = Idle
    /\ served < MaxRequests
    /\ served' = served + 1
    /\ UNCHANGED <<cfg, inflight>>
    /\ \E name \in TeamNames :
      \E order \in RowOrders(IF Contains(db.teams, name)
                             THEN MembersOf(db, TeamIDByName(db, name)) ELSE {}) :
        \E fault \in 0..NCalls(TeamGet(db, name, order, 0)) :
          LET r == TeamGet(db, name, order, fault)
          IN  /\ db' = r.db
              /\ last' = Served("TeamGet", <<name>>, r)
              /\ prevMerge' = <<>>

\* POST /users/setIsActive; UsersSetIsActive opens no transaction: a statement
\* that succeeded stays.
DoUsersSetIsActive ==
    /\ last = Idle
    /\ served < MaxRequests
    /\ served' = served + 1
    /\ UNCHANGED <<cfg, inflight>>
    /\ \E userID \in UserIDs, active \in BOOLEAN :
      \E fault \in 0..NCalls(UsersSetIsActive(db, userID, active, 0)) :
        LET r == UsersSetIsActive(db, userID, active, fault)
        IN  /\ db' = r.db
            /\ last' = Served("UsersSetIsActive", <<userID, active>>, r)
            /\ prevMerge' = <<>>

\* The handler writes the response and the request ends.
Respond ==
    /\ last # Idle
    /\ last' = Idle
    /\ UNCHANGED <<db, prevMerge, served, cfg, inflight>>

Next ==
    \/ DoCreatePR
    \/ DoPRMerge
    \/ DoPRReassign
    \/ DoTeamAdd
    \/ DoTeamGet
    \/ DoUsersSetIsActive
    \/ Respond

Spec == Init /\ [][Next]_vars

\* ------------------------------------------- a reassignment racing other requests
\* PRReassign up to its replace statement: the transaction has read the PR, the
\* author and the pool, found a candidate, and has written nothing yet.
BeginPRReassign ==
    /\ last = Idle
    /\ inflight = <<>>
    /\ served < MaxRequests
    /\ served' = served + 1
    /\ \E prID \in PRIDs, oldUserID \in UserIDs :
      \E revOrder \in RowOrders(ReviewersOf(db, prID)),
         poolOrder \in RowOrders(ActiveOf(db, TeamOfUser(db, AuthorOfPR(db, prID)))) :
        /\ Len(PRReassign(db, prID, oldUserID, revOrder, poolOrder, 0).calls) = 4
        /\ inflight' = <<[op |-> "PRReassign", prID |-> prID, oldUserID |-> oldUserID,
                          revOrder |-> revOrder, poolOrder |-> poolOrder, d |-> db]>>
    /\ UNCHANGED <<db, last, prevMerge, cfg>>

\* The replace statement of the reassignment in flight, on the state the requests
\* served meanwhile have committed, and the end of its transaction.
EndPRReassign ==
    /\ last = Idle
    /\ inflight # <<>>
    /\ inflight[1].op = "PRReassign"
    /\ LET f == inflight[1]
       IN  \E fault \in {0, 4} :
             LET r == PRReassignOn(f.d, db, f.prID, f.oldUserID, f.revOrder,
                                   f.poolOrder, fault)
             IN  /\ db' = TxDo(db, r)
                 /\ last' = Served("PRReassign", <<f.prID, f.oldUserID>>, r)
    /\ inflight' = <<>>
    /\ prevMerge' = <<>>
    /\ UNCHANGED <<served, cfg>>

NextRace ==
    \/ DoTeamAdd
    \/ DoCreatePR
    \/ DoPRReassign
    \/ BeginPRReassign
    \/ EndPRReassign
    \/ Respond

SpecRace == Init /\ [][NextRace]_vars

\* ------------------------------------------------------------- merges in a race
\* A PRMerge that has fetched a PR that is not merged and has not yet sent its
\* update; other requests are served meanwhile.
BeginPRMerge ==
    /\ last = Idle
    /\ inflight = <<>>
    /\ served < MaxRequests
    /\ served' = served + 1
    /\ \E id \in PRIDs :
      \E revOrder \in RowOrders(ReviewersOf(db, id)) :
        /\ Len(PRMerge(db, id, revOrder, 0).calls) = 2
        /\ inflight' = <<[op |-> "PRMerge", prID |-> id, revOrder |-> revOrder, d |-> db]>>
    /\ UNCHANGED <<db, last, prevMerge, cfg>>

\* The update of the merge in flight, on the state the requests served meanwhile
\* have committed, and the end of its transaction.
EndPRMerge ==
    /\ last = Idle
    /\ inflight # <<>>
    /\ inflight[1].op = "PRMerge"
    /\ LET f == inflight[1]
       IN  \E fault \in {0, 2} :
             LET r == PRMergeOn(f.d, db, f.prID, f.revOrder, fault)
             IN  /\ db' = TxDo(db, r)
                 /\ last' = Served("PRMerge", <<f.prID>>, r)
    /\ inflight' = <<>>
    /\ prevMerge' = <<>>
    /\ UNCHANGED <<served, cfg>>

\* A merge or a reassignment in flight while merges, creations and team additions
\* are served; SpecRace has the reassignments served meanwhile.
NextConc ==
    \/ DoTeamAdd
    \/ DoCreatePR
    \/ DoPRMerge
    \/ BeginPRMerge
    \/ EndPRMerge
    \/ BeginPRReassign
    \/ EndPRReassign
    \/ Respond

SpecConc == Init /\ [][NextConc]_vars

\* ---------------------------------------------------- the retrier on its own
\* The errors a unit of work may return: nil, a driver error, what the database
\* reports, a sentinel error, and an error wrapping a sentinel error.
UnitErrs ==
    {NoErr, ErrDB, PgNoRows, PgUniqueViolation, PgForeignKeyViolation, PgTxAborted}
        \cup Sentinels \cup {Wrap(e) : e \in Sentinels}

\* retrier.Do(ctx, unit) for a unit of work that returns unit[k] on its k-th run.
DoRetrierDo ==
    /\ last = Idle
    /\ \E unit \in [1..cfg.MaxAttempts -> UnitErrs] :
          LET r == RetrierDo(cfg.MaxAttempts, unit)
          IN  last' = [op |-> "Retrier.Do", args |-> <<unit>>, err |-> r.err,
                       ret |-> <<r.attempts>>, calls |-> <<>>]
    /\ UNCHANGED <<db, prevMerge, served, cfg, inflight>>

NextRetry ==
    \/ DoRetrierDo
    \/ Respond

SpecRetry == Init /\ [][NextRetry]_vars

\* ------------------------------------------- a service over a populated database
\* The service started over tables that earlier runs have filled: one team with
\* MaxUsers members, each active or not, and MaxPRs + 1 PRs of member 1, each with
\* up to two reviewers out of the team (what CreatePR assigns, whatever the
\* members' activity is by now); the first PR open or merged.
StoredPRIDs == 1..(MaxPRs + 1)

ReviewerSets == {S \in SUBSET UserIDs : Cardinality(S) <= 2}

StoredDBs ==
    {[teams |-> <<"backend">>,
      users |-> [u \in UserIDs |-> [team |-> 1, active |-> act[u]]],
      prs   |-> [p \in StoredPRIDs |->
                    [author |-> 1,
                     status |-> IF p = 1 /\ merged THEN PRStatusMerged ELSE PRStatusOpen,
                     mergedAt |-> IF p = 1 /\ merged THEN 1 ELSE NilID]],
      revs  |-> UNION {{<<p, u>> : u \in rv[p]} : p \in StoredPRIDs},
      clock |-> IF merged THEN 1 ELSE 0] :
        act \in [UserIDs -> BOOLEAN], merged \in BOOLEAN,
        rv \in [StoredPRIDs -> ReviewerSets]}

InitStored ==
    /\ db \in StoredDBs
    /\ last = Idle
    /\ prevMerge = <<>>
    /\ served = 0
    /\ cfg \in [MaxAttempts : 1..MaxRetryAttempts]
    /\ inflight = <<>>

\* The reviewer lists a caller may hand to AssignReviewers.
ReviewerLists == UNION {[1..n -> UserIDs] : n \in 0..2}

\* PRRepo.AssignReviewers(ctx, prID, reviewers) on a transaction, as CreatePR
\* calls it.
DoAssignReviewers ==
    /\ last = Idle
    /\ served < MaxRequests
    /\ served' = served + 1
    /\ UNCHANGED <<cfg, inflight>>
    /\ \E prID \in StoredPRIDs, reviewers \in ReviewerLists, fault \in BOOLEAN :
          LET c == AssignReviewers(db, prID, reviewers, fault)
          IN  /\ db' = TxDo(db, c)
              /\ last' = [op |-> "PRRepo.AssignReviewers", args |-> <<prID, reviewers>>,
                           err |-> c.err, ret |-> <<>>,
                           calls |-> <<Call("PRRepo.AssignReviewers",
                                            <<prID, reviewers>>, c)>>]
              /\ prevMerge' = <<>>

NextStored ==
    \/ DoAssignReviewers
    \/ DoPRReassign
    \/ Respond

SpecStored == InitStored /\ [][NextStored]_vars

\* ----------------------------------------------------- a request, step by step
\* The same requests with the time they take: a request starts, runs its
\* repository calls one after the other, each call running its unit of work once
\* per attempt, and returns.  inflight holds the request, what it will return
\* (r), whether it runs in a transaction (tx), the call it is at (i) and the
\* attempt of that call (k).  One request is handled at a time.
CanStart ==
    /\ last = Idle
    /\ inflight = <<>>
    /\ served < MaxLiveRequests

Start(op, args, r, tx) ==
    /\ served' = served + 1
    /\ inflight' = <<[op |-> op, args |-> args, r |-> r, tx |-> tx, i |-> 1, k |-> 1]>>
    /\ UNCHANGED <<db, last, prevMerge, cfg>>

StartCreatePR ==
    /\ CanStart
    /\ \E id \in PRIDs, author \in UserIDs :
         \E poolOrder \in RowOrders(ActiveOf(db, TeamOfUser(db, author))) :
           LET pr == [ZeroPR EXCEPT !.id = id, !.author = author, !.status = PRStatusOpen]
           IN  \E fault \in 0..NCalls(CreatePR(db, pr, poolOrder, 0)) :
                 Start("CreatePR", <<id, author>>, CreatePR(db, pr, poolOrder, fault), TRUE)

StartPRMerge ==
    /\ CanStart
    /\ \E id \in PRIDs :
         \E revOrder \in RowOrders(ReviewersOf(db, id)) :
           \E fault \in 0..NCalls(PRMerge(db, id, revOrder, 0)) :
             Start("PRMerge", <<id>>, PRMerge(db, id, revOrder, fault), TRUE)

StartPRReassign ==
    /\ CanStart
    /\ \E prID \in PRIDs, oldUserID \in UserIDs :
         \E revOrder \in RowOrders(ReviewersOf(db, prID)),
            poolOrder \in RowOrders(ActiveOf(db, TeamOfUser(db, AuthorOfPR(db, prID)))) :
           \E fault \in 0..NCalls(PRReassign(db, prID, oldUserID, revOrder, poolOrder, 0)) :
             Start("PRReassign", <<prID, oldUserID>>,
                   PRReassign(db, prID, oldUserID, revOrder, poolOrder, fault), TRUE)

StartTeamAdd ==
    /\ CanStart
    /\ \E name \in TeamNames, members \in MemberLists :
         LET team == [ZeroTeam EXCEPT !.name = name, !.members = members]
         IN  /\ Len(db.users) + Len(members) <= MaxUsers
             /\ \E fault \in 0..NCalls(TeamAdd(db, team, 0)) :
                   Start("TeamAdd", <<name, members>>, TeamAdd(db, team, fault), TRUE)

StartTeamGet ==
    /\ CanStart
    /\ \E name \in TeamNames :
         \E order \in RowOrders(IF Contains(db.teams, name)
                                THEN MembersOf(db, TeamIDByName(db, name)) ELSE {}) :
           \E fault \in 0..NCalls(TeamGet(db, name, order, 0)) :
             Start("TeamGet", <<name>>, TeamGet(db, name, order, fault), FALSE)

StartUsersSetIsActive ==
    /\ CanStart
    /\ \E userID \in UserIDs, active \in BOOLEAN :
         \E fault \in 0..NCalls(UsersSetIsActive(db, userID, active, 0)) :
           Start("UsersSetIsActive", <<userID, active>>,
                 UsersSetIsActive(db, userID, active, fault), FALSE)

\* retrier.Do runs the unit of work of the call once more.
RunAttempt ==
    /\ inflight # <<>>
    /\ inflight[1].k < inflight[1].r.calls[inflight[1].i].attempts
    /\ inflight' = <<[inflight[1] EXCEPT !.k = @ + 1]>>
    /\ UNCHANGED <<db, last, prevMerge, served, cfg>>

\* The repository call returns and the method goes on to its next call.
NextCall ==
    /\ inflight # <<>>
    /\ inflight[1].k >= inflight[1].r.calls[inflight[1].i].attempts
    /\ inflight[1].i < Len(inflight[1].r.calls)
    /\ inflight' = <<[inflight[1] EXCEPT !.i = @ + 1, !.k = 1]>>
    /\ UNCHANGED <<db, last, prevMerge, served, cfg>>

\* The last repository call returns and the method returns to the handler.
Return ==
    /\ inflight # <<>>
    /\ inflight[1].k >= inflight[1].r.calls[inflight[1].i].attempts
    /\ inflight[1].i = Len(inflight[1].r.calls)
    /\ LET f == inflight[1]
       IN  /\ db' = IF f.tx THEN TxDo(db, f.r) ELSE f.r.db
           /\ last' = Served(f.op, f.args, f.r)
           /\ prevMerge' = IF f.op = "PRMerge" /\ f.r.err = NoErr
                           THEN <<Served(f.op, f.args, f.r)>> ELSE <<>>
    /\ inflight' = <<>>
    /\ UNCHANGED <<served, cfg>>

\* What the goroutine that serves a request does next.
Step ==
    \/ RunAttempt
    \/ NextCall
    \/ Return

NextLive ==
    \/ StartCreatePR
    \/ StartPRMerge
    \/ StartPRReassign
    \/ StartTeamAdd
    \/ StartTeamGet
    \/ StartUsersSetIsActive
    \/ Step
    \/ Respond

\* The goroutine of a request is scheduled as long as it can run, and every
\* statement it sends returns (with a result or an error).
SpecLive == Init /\ [][NextLive]_vars /\ WF_vars(Step)

\* ------------------------------------------------------------------ properties
\* The calls the request being answered made to repository method fn.
CallsTo(fn) == SelectSeq(last.calls, LAMBDA c : c.fn = fn)

Called(fn) == CallsTo(fn) # <<>>

\* The same for the answer the next state holds.
CallsToNext(fn) == SelectSeq(last'.calls, LAMBDA c : c.fn = fn)

\* The PR as PRRepo.GetByID returned it to the request being answered.
Fetched == CallsTo("PRRepo.GetByID")[1].val

\* The pool as UserRepo.GetActiveByTeam returned it.
Pool == CallsTo("UserRepo.GetActiveByTeam")[1].val

\* The replacement handed to PRRepo.ReplaceReviewer.
Candidate == CallsTo("PRRepo.ReplaceReviewer")[1].args[3]

ReassignOK == last.op = "PRReassign" /\ last.err = NoErr

\* C1: every successful PRReassign(prID, oldReviewerID) returns a PR whose reviewer
\* list does not contain oldReviewerID, contains the new reviewer exactly once and
\* has it as its last element (so the list is not empty).
C1_ReassignInvariant ==
    ReassignOK =>
        /\ last.ret # <<>>
        /\ Called("PRRepo.ReplaceReviewer")
        /\ LET reviewers == last.ret[1].reviewers
           IN  /\ reviewers # <<>>
               /\ ~Contains(reviewers, last.args[2])
               /\ Count(reviewers, Candidate) = 1
               /\ Last(reviewers) = Candidate

\* A reassignment on a PR with two reviewers has succeeded.
C1_Witness == ReassignOK /\ Len(Fetched.reviewers) = 2

\* C2: the replacement handed to ReplaceReviewer is never oldReviewerID and never
\* a user of the reviewer list fetched at the start of the operation.
C2_Exclusion ==
    (last.op = "PRReassign" /\ Called("PRRepo.ReplaceReviewer")) =>
        /\ Candidate # last.args[2]
        /\ ~Contains(Fetched.reviewers, Candidate)

\* The replace step is reached with a pool that lists the old reviewer first and
\* the other reviewer second: both are skipped.
C2_Witness ==
    /\ last.op = "PRReassign"
    /\ Called("PRRepo.ReplaceReviewer")
    /\ Len(Pool) = 3
    /\ Pool[1] = last.args[2]
    /\ Contains(Fetched.reviewers, Pool[2])
    /\ Candidate = Pool[3]

\* C3: after a successful CreatePR the new PR has min(2, n) reviewer rows, n the
\* size of the pool fetched; an empty pool gives a PR with no reviewer, and the
\* operation succeeds unless a statement fails.
C3_Cap ==
    /\ (last.op = "CreatePR" /\ last.err = NoErr) =>
          Cardinality(ReviewersOf(db, last.args[1])) = Min(2, Len(Pool))
    /\ (/\ last.op = "CreatePR"
        /\ Called("UserRepo.GetActiveByTeam")
        /\ Pool = <<>>
        /\ \A i \in DOMAIN last.calls : last.calls[i].err # ErrDB) =>
          /\ last.err = NoErr
          /\ PRExists(db, last.args[1])
          /\ ReviewersOf(db, last.args[1]) = {}

\* A PR has been created from a pool of three: the cut to two happened.
C3_Witness ==
    /\ last.op = "CreatePR"
    /\ last.err = NoErr
    /\ Len(Pool) = 3
    /\ Cardinality(ReviewersOf(db, last.args[1])) = 2

\* A PR has been created from an empty pool.
C3_WitnessEmptyPool ==
    /\ last.op = "CreatePR"
    /\ last.err = NoErr
    /\ Called("UserRepo.GetActiveByTeam")
    /\ Pool = <<>>

\* The PR and the pool as the answer the next state holds got them.
FetchedNext == CallsToNext("PRRepo.GetByID")[1].val

PoolNext == CallsToNext("UserRepo.GetActiveByTeam")[1].val

\* C4: after TeamAdd of a team of three active members and then CreatePR by one of
\* them, the PR has exactly two distinct reviewers and the author is not one of them.
C4_ThreeMemberScenario ==
    (/\ served = 2
     /\ last.op = "CreatePR"
     /\ last.err = NoErr
     /\ Len(db.teams) = 1
     /\ Len(db.users) = 3
     /\ \A u \in DOMAIN db.users : db.users[u].team = 1 /\ db.users[u].active) =>
        /\ Cardinality(ReviewersOf(db, last.args[1])) = 2
        /\ last.args[2] \notin ReviewersOf(db, last.args[1])

\* C5: PRMerge on a PR fetched as MERGED returns the fetched record with no error,
\* makes no call after the fetch, and leaves the persisted state as it was.
C5_MergeAlreadyMerged ==
    [][(/\ last'.op = "PRMerge"
        /\ CallsToNext("PRRepo.GetByID")[1].err = NoErr
        /\ FetchedNext.status = PRStatusMerged) =>
          /\ last'.err = NoErr
          /\ last'.ret = <<FetchedNext>>
          /\ Len(last'.calls) = 1
          /\ db' = db]_vars

\* PRMerge has answered for a PR it fetched as MERGED.
C5_Witness ==
    /\ last.op = "PRMerge"
    /\ last.err = NoErr
    /\ Fetched.status = PRStatusMerged
    /\ Fetched.mergedAt # NilID

\* C6: of two PRMerge calls in a row on the same existing OPEN PR, the second returns
\* the status and merge timestamp the first returned, and the two issue one merge
\* mutation in total.
C6_MergeTwiceSameResult ==
    [][(/\ prevMerge # <<>>
        /\ prevMerge[1].calls[1].val.status = PRStatusOpen
        /\ last'.op = "PRMerge"
        /\ last'.err = NoErr
        /\ last'.args = prevMerge[1].args) =>
          /\ last'.ret[1].status = prevMerge[1].ret[1].status
          /\ last'.ret[1].mergedAt = prevMerge[1].ret[1].mergedAt
          /\ Len(SelectSeq(prevMerge[1].calls \o last'.calls,
                           LAMBDA c : c.fn = "PRRepo.Merge")) = 1]_vars

\* C7: PRReassign on a PR fetched as MERGED fails with ErrCanNotReassing, returns no
\* PR, makes no call after the fetch, and leaves the persisted state as it was.
C7_ReassignMerged ==
    [][(/\ last'.op = "PRReassign"
        /\ CallsToNext("PRRepo.GetByID")[1].err = NoErr
        /\ FetchedNext.status = PRStatusMerged) =>
          /\ last'.err = ErrCanNotReassing
          /\ last'.ret = <<>>
          /\ Len(last'.calls) = 1
          /\ db' = db]_vars

\* PRReassign has been refused for a merged PR whose reviewer it was asked to replace.
C7_Witness ==
    /\ last.op = "PRReassign"
    /\ last.err = ErrCanNotReassing
    /\ Fetched.status = PRStatusMerged
    /\ Contains(Fetched.reviewers, last.args[2])

\* C8: when every user of the fetched pool is oldReviewerID or already a reviewer,
\* PRReassign fails with ErrNoAvailableReviewer, never calls ReplaceReviewer, and
\* leaves the persisted state as it was.
C8_NoAvailableReviewer ==
    [][(/\ last'.op = "PRReassign"
        /\ CallsToNext("UserRepo.GetActiveByTeam") # <<>>
        /\ CallsToNext("UserRepo.GetActiveByTeam")[1].err = NoErr
        /\ \A i \in DOMAIN PoolNext :
              \/ PoolNext[i] = last'.args[2]
              \/ Contains(FetchedNext.reviewers, PoolNext[i])) =>
          /\ last'.err = ErrNoAvailableReviewer
          /\ last'.ret = <<>>
          /\ CallsToNext("PRRepo.ReplaceReviewer") = <<>>
          /\ db' = db]_vars

\* The only reviewer of an open PR is the only active member of the author's team.
C8_Witness ==
    /\ last.op = "PRReassign"
    /\ last.err = ErrNoAvailableReviewer
    /\ Fetched.reviewers = <<last.args[2]>>
    /\ Pool = <<last.args[2]>>

\* C9: PRReassign on an open PR for a user who is not among its reviewers fails with
\* ErrNotAssinged, returns no PR, and makes no call after the fetch.
C9_NotAssigned ==
    (/\ last.op = "PRReassign"
     /\ CallsTo("PRRepo.GetByID")[1].err = NoErr
     /\ Fetched.status = PRStatusOpen
     /\ ~Contains(Fetched.reviewers, last.args[2])) =>
        /\ last.err = ErrNotAssinged
        /\ last.ret = <<>>
        /\ Len(last.calls) = 1

\* PRReassign has been refused for a stored user who is not a reviewer of an open
\* PR that has reviewers.
C9_Witness ==
    /\ last.op = "PRReassign"
    /\ last.err = ErrNotAssinged
    /\ Fetched.status = PRStatusOpen
    /\ Fetched.reviewers # <<>>
    /\ UserExists(db, last.args[2])

\* C10: when the creation of a member fails during TeamAdd, TeamAdd returns an error
\* and the persisted state (teams and users included) is what it was before the call.
C10_TeamAddAtomic ==
    [][(/\ last'.op = "TeamAdd"
        /\ \E i \in DOMAIN last'.calls :
              /\ last'.calls[i].fn = "UserRepo.Create"
              /\ last'.calls[i].err # NoErr) =>
          /\ last'.err # NoErr
          /\ db'.teams = db.teams
          /\ db'.users = db.users
          /\ db' = db]_vars

\* TeamAdd of three members has failed at the second one, the first one created.
C10_Witness ==
    /\ last.op = "TeamAdd"
    /\ Len(last.args[2]) = 3
    /\ Len(last.calls) = 3
    /\ last.calls[2].err = NoErr
    /\ last.calls[3].err # NoErr

\* The errors the retry classification calls permanent: a sentinel error or an
\* error that wraps one.
Permanent(e) == \E p \in Sentinels : e = p \/ e = Wrap(p)

\* C11: the classifier calls an error not retryable exactly when it is NotFound,
\* Duplicate, InvalidID, ForeignKeyViolation or TxAborted or wraps one of them;
\* the retrier runs the unit of work once when its first error is one of these,
\* and as many times as configured when every run fails with another error.
C11_RetryClassification ==
    /\ \A e \in UnitErrs \ {NoErr} : isRetryableFunc(e) <=> ~Permanent(e)
    /\ last.op = "Retrier.Do" =>
          LET unit == last.args[1]
              attempts == last.ret[1]
          IN  /\ attempts \in 1..cfg.MaxAttempts
              /\ last.err = unit[attempts]
              /\ Permanent(unit[1]) => attempts = 1
              /\ (\A k \in DOMAIN unit : unit[k] # NoErr /\ ~Permanent(unit[k])) =>
                    attempts = cfg.MaxAttempts

\* With two attempts configured, a unit failing with an error that wraps
\* ErrTxAborted has run once.
C11_Witness ==
    /\ last.op = "Retrier.Do"
    /\ cfg.MaxAttempts = 2
    /\ last.args[1][1] = Wrap(ErrTxAborted)
    /\ last.ret = <<1>>

\* No repository call of the request being answered failed with a driver error.
NoDriverFault == \A i \in DOMAIN last.calls : last.calls[i].err # ErrDB

\* C12: a repository call that ends with a permanent error (NotFound, Duplicate,
\* InvalidID, ForeignKeyViolation, TxAborted) has run its statement exactly once.
C12_PermanentErrorOnce ==
    \A i \in DOMAIN last.calls :
        last.calls[i].err \in Sentinels => last.calls[i].attempts = 1

\* C13: PRMerge for an id with no stored PR fails with ErrNotFound, returns no PR
\* and does not call PRRepo.Merge.
C13_MergeMissingPR ==
    (/\ last.op = "PRMerge"
     /\ ~PRExists(db, last.args[1])
     /\ NoDriverFault) =>
        /\ last.err = ErrNotFound
        /\ last.ret = <<>>
        /\ ~Called("PRRepo.Merge")

\* C14: PRReassign for a prID with no stored PR fails with ErrNotFound, not with a
\* domain error, returns no PR and does not call PRRepo.ReplaceReviewer.
C14_ReassignMissingPR ==
    (/\ last.op = "PRReassign"
     /\ ~PRExists(db, last.args[1])
     /\ NoDriverFault) =>
        /\ last.err = ErrNotFound
        /\ last.ret = <<>>
        /\ ~Called("PRRepo.ReplaceReviewer")

\* C15: after a successful CreatePR the PR object the caller holds lists exactly
\* the reviewer ids that were handed to PRRepo.AssignReviewers.
C15_CreatedPRHasReviewers ==
    (last.op = "CreatePR" /\ last.err = NoErr) =>
        last.ret[1].reviewers = CallsTo("PRRepo.AssignReviewers")[1].args[2]

\* C16: when CreatePR fails at a repository call after the PR row was written, it
\* returns that call's error and leaves no PR row and no reviewer row behind: the
\* persisted state is what it was before the call.
C16_CreatePRAtomic ==
    [][(/\ last'.op = "CreatePR"
        /\ last'.calls[1].err = NoErr
        /\ \E i \in DOMAIN last'.calls : last'.calls[i].err # NoErr) =>
          /\ last'.err # NoErr
          /\ last'.err = Last(last'.calls).err
          /\ ~PRExists(db', last'.args[1])
          /\ ReviewersOf(db', last'.args[1]) = {}
          /\ db' = db]_vars

\* CreatePR has failed at the reviewer assignment, after the insert of the PR and
\* both reads.
C16_Witness ==
    /\ last.op = "CreatePR"
    /\ Len(last.calls) = 4
    /\ last.calls[1].err = NoErr
    /\ last.calls[4].fn = "PRRepo.AssignReviewers"
    /\ last.calls[4].err # NoErr
    /\ last.err = last.calls[4].err
    /\ ~PRExists(db, last.args[1])

\* C17: CreatePR with the id of a stored PR fails with ErrDuplicate at its first
\* repository call, makes no other call, and leaves the stored PR as it was.
C17_CreatePRDuplicate ==
    [][(/\ last'.op = "CreatePR"
        /\ PRExists(db, last'.args[1])
        /\ last'.calls[1].err # ErrDB) =>
          /\ last'.err = ErrDuplicate
          /\ Len(last'.calls) = 1
          /\ db' = db]_vars

\* C18: a PR row appears with status OPEN, never disappears, and its status
\* changes only from OPEN to MERGED: never back, so at most once.
C18_StatusMonotone ==
    [][\A id \in PRIDs :
          /\ PRExists(db, id) =>
                /\ PRExists(db', id)
                /\ db'.prs[id].status \in {PRStatusOpen, PRStatusMerged}
                /\ db.prs[id].status = PRStatusMerged =>
                      db'.prs[id].status = PRStatusMerged
          /\ (~PRExists(db, id) /\ PRExists(db', id)) =>
                db'.prs[id].status = PRStatusOpen]_vars

\* CreatePR has been asked for the id of a PR that is stored as MERGED.
C18_Witness ==
    /\ last.op = "CreatePR"
    /\ PRExists(db, last.args[1])
    /\ db.prs[last.args[1]].status = PRStatusMerged

\* C20: TeamAdd with the name of a stored team fails with ErrTeamAlreadyExists,
\* creates no member, and leaves the stored teams and users as they were, whatever
\* the configured number of attempts.
C20_TeamAddDuplicate ==
    [][(/\ last'.op = "TeamAdd"
        /\ Contains(db.teams, last'.args[1])
        /\ last'.calls[1].err # ErrDB) =>
          /\ last'.err = ErrTeamAlreadyExists
          /\ Len(last'.calls) = 1
          /\ db' = db]_vars

\* C19: when the (prID, oldReviewerID) row is gone at the time the replace statement
\* of a PRReassign runs, the statement fails with ErrNotFound after one run, no
\* reviewer row is inserted, PRReassign fails with ErrNotFound, and the persisted
\* state is what the other requests left.
C19_ReplaceRace ==
    [][(/\ inflight # <<>>
        /\ inflight' = <<>>
        /\ <<inflight[1].prID, inflight[1].oldUserID>> \notin db.revs
        /\ Last(last'.calls).err # ErrDB) =>
          /\ Last(last'.calls).fn = "PRRepo.ReplaceReviewer"
          /\ Last(last'.calls).err = ErrNotFound
          /\ Last(last'.calls).attempts = 1
          /\ last'.err = ErrNotFound
          /\ last'.ret = <<>>
          /\ db' = db]_vars

\* A PRReassign that had read its old reviewer among the reviewers has failed at
\* the replace statement with ErrNotFound.
C19_Witness ==
    /\ last.op = "PRReassign"
    /\ Called("PRRepo.ReplaceReviewer")
    /\ Contains(Fetched.reviewers, last.args[2])
    /\ <<last.args[1], last.args[2]>> \notin db.revs
    /\ last.err = ErrNotFound

\* C21: TeamGet returns ErrNotFound and no team when no team has the name, any
\* other repository error as it is and no team, and on success the team with
\* exactly the members UserRepo.GetByTeam returned: all of them, active or not.
C21_TeamGet ==
    last.op = "TeamGet" =>
        /\ (~Contains(db.teams, last.args[1]) /\ NoDriverFault) =>
              /\ last.err = ErrNotFound
              /\ last.ret = <<>>
              /\ Len(last.calls) = 1
        /\ \A i \in DOMAIN last.calls :
              last.calls[i].err # NoErr =>
                  /\ last.err = last.calls[i].err
                  /\ last.ret = <<>>
        /\ last.err = NoErr =>
              /\ last.ret[1].name = last.args[1]
              /\ last.ret[1].id = TeamIDByName(db, last.args[1])
              /\ last.ret[1].members = CallsTo("UserRepo.GetByTeam")[1].val
              /\ {last.ret[1].members[i] : i \in DOMAIN last.ret[1].members}
                    = MembersOf(db, last.ret[1].id)

\* TeamGet has returned a team that has an active and an inactive member.
C21_Witness ==
    /\ last.op = "TeamGet"
    /\ last.err = NoErr
    /\ \E i, j \in DOMAIN last.ret[1].members :
          /\ db.users[last.ret[1].members[i]].active
          /\ ~db.users[last.ret[1].members[j]].active

\* C22: when a repository call of CreatePR, PRMerge, PRReassign, TeamAdd or TeamGet
\* returns an error, the operation returns that same error; only ErrDuplicate of
\* TeamRepo.Create becomes ErrTeamAlreadyExists.  No repository error becomes a
\* success.
C22_ErrorPropagation ==
    (last.op \in {"CreatePR", "PRMerge", "PRReassign", "TeamAdd", "TeamGet"}) =>
        \A i \in DOMAIN last.calls :
            last.calls[i].err # NoErr =>
                /\ last.err # NoErr
                /\ \/ last.err = last.calls[i].err
                   \/ /\ last.calls[i].fn = "TeamRepo.Create"
                      /\ last.calls[i].err = ErrDuplicate
                      /\ last.err = ErrTeamAlreadyExists

\* PRMerge has failed at PRRepo.Merge, after the fetch of an open PR.
C22_Witness ==
    /\ last.op = "PRMerge"
    /\ Len(last.calls) = 2
    /\ Fetched.status = PRStatusOpen
    /\ last.calls[2].err = ErrDB
    /\ last.err = ErrDB

\* C23: a successful PRMerge of a PR fetched as OPEN returns the record as fetched
\* before the update (status OPEN, no merge timestamp) and has called PRRepo.Merge
\* exactly once, for that id.
C23_MergeReturnsFetched ==
    (/\ last.op = "PRMerge"
     /\ last.err = NoErr
     /\ Fetched.status = PRStatusOpen) =>
        /\ last.ret = <<Fetched>>
        /\ last.ret[1].status = PRStatusOpen
        /\ last.ret[1].mergedAt = NilID
        /\ Len(CallsTo("PRRepo.Merge")) = 1
        /\ CallsTo("PRRepo.Merge")[1].args = last.args
        /\ db.prs[last.args[1]].status = PRStatusMerged

\* An open PR with reviewers has been merged.
C23_Witness ==
    /\ last.op = "PRMerge"
    /\ last.err = NoErr
    /\ Fetched.status = PRStatusOpen
    /\ Fetched.reviewers # <<>>
    /\ db.prs[last.args[1]].mergedAt # NilID

\* C25: the reviewer ids CreatePR hands to PRRepo.AssignReviewers are the first
\* min(2, n) users of the pool UserRepo.GetActiveByTeam returned, in its order.
C25_FirstTwoOfPool ==
    (last.op = "CreatePR" /\ Called("PRRepo.AssignReviewers")) =>
        /\ CallsTo("PRRepo.AssignReviewers")[1].args[1] = last.args[1]
        /\ CallsTo("PRRepo.AssignReviewers")[1].args[2]
             = SubSeq(Pool, 1, Min(2, Len(Pool)))

\* CreatePR has assigned reviewers out of a pool of three.
C25_Witness ==
    /\ last.op = "CreatePR"
    /\ last.err = NoErr
    /\ Called("PRRepo.AssignReviewers")
    /\ Len(Pool) = 3

\* The positions of the fetched pool that hold a user who is neither the old
\* reviewer nor a reviewer of the fetched PR.
Eligible ==
    {i \in DOMAIN Pool : Pool[i] # last.args[2] /\ ~Contains(Fetched.reviewers, Pool[i])}

\* C26: once PRReassign has its pool, the replacement it submits is the first user
\* of the pool, in pool order, that is neither oldReviewerID nor a reviewer already;
\* it fails with ErrNoAvailableReviewer exactly when the pool holds no such user.
C26_FirstEligible ==
    (/\ last.op = "PRReassign"
     /\ Called("UserRepo.GetActiveByTeam")
     /\ Last(last.calls).fn # "UserRepo.GetActiveByTeam" \/ Last(last.calls).err = NoErr) =>
        /\ (Eligible = {}) <=> (last.err = ErrNoAvailableReviewer)
        /\ (Eligible = {}) <=> ~Called("PRRepo.ReplaceReviewer")
        /\ Eligible # {} =>
              /\ Candidate \in {Pool[i] : i \in Eligible}
              /\ \A i \in Eligible : Pool[i] = Candidate \/
                    \E j \in Eligible : j < i /\ Pool[j] = Candidate

\* PRReassign had two users to choose from and took the first.
C26_Witness ==
    /\ ReassignOK
    /\ Cardinality(Eligible) = 2
    /\ \E i \in Eligible : Pool[i] = Candidate /\ \E j \in Eligible : j > i

\* PRReassign found nobody to take over.
C26_WitnessNone ==
    /\ last.op = "PRReassign"
    /\ Called("UserRepo.GetActiveByTeam")
    /\ Pool # <<>>
    /\ Eligible = {}
    /\ last.err = ErrNoAvailableReviewer

\* C27: PRRepo.AssignReviewers(prID, ids) replaces: after a successful call the
\* stored reviewers of prID are exactly ids, whatever they were before, the rows of
\* every other PR are as they were, and the same call once more changes nothing.
C27_AssignReplaces ==
    [][(last'.op = "PRRepo.AssignReviewers" /\ last'.err = NoErr) =>
          LET prID == last'.args[1]
              ids  == last'.args[2]
          IN  /\ ReviewersOf(db', prID) = {ids[i] : i \in DOMAIN ids}
              /\ {r \in db'.revs : r[1] # prID} = {r \in db.revs : r[1] # prID}
              /\ db'.prs = db.prs /\ db'.users = db.users /\ db'.teams = db.teams
              /\ AssignReviewers(db', prID, ids, FALSE).err = NoErr
              /\ AssignReviewers(db', prID, ids, FALSE).db = db']_vars

\* AssignReviewers has stored two reviewers for one PR while the other PR has
\* reviewers of its own, one of them a user just assigned.
C27_Witness ==
    /\ last.op = "PRRepo.AssignReviewers"
    /\ last.err = NoErr
    /\ Len(last.args[2]) = 2
    /\ \E p \in StoredPRIDs \ {last.args[1]} :
          /\ ReviewersOf(db, p) # {}
          /\ ReviewersOf(db, p) # ReviewersOf(db, last.args[1])
          /\ ReviewersOf(db, p) \cap ReviewersOf(db, last.args[1]) # {}

\* The repository calls of PRReassign, in the order of the code.
ReassignSteps ==
    <<"PRRepo.GetByID", "UserRepo.GetUserByID", "UserRepo.GetActiveByTeam",
      "PRRepo.ReplaceReviewer">>

\* C28: PRReassign goes through its steps in one order: fetch, merged check,
\* assigned check, author lookup, pool fetch, candidate selection, replace.  A
\* merged PR gives ErrCanNotReassing whether or not the old reviewer is assigned; a
\* domain error comes only after every read before it succeeded; the replace is the
\* last repository call and the only one that changes the stored state.
C28_ReassignOrder ==
    [][last'.op = "PRReassign" =>
          LET calls == last'.calls
              n == Len(calls)
              fetched == calls[1].val
              old == last'.args[2]
          IN  /\ n \in 1..4
              /\ \A i \in 1..n : calls[i].fn = ReassignSteps[i]
              /\ \A i \in 1..(n - 1) : calls[i].err = NoErr
              /\ (calls[1].err = NoErr /\ fetched.status = PRStatusMerged) =>
                    last'.err = ErrCanNotReassing /\ n = 1
              /\ last'.err = ErrCanNotReassing =>
                    n = 1 /\ calls[1].err = NoErr /\ fetched.status = PRStatusMerged
              /\ last'.err = ErrNotAssinged =>
                    /\ n = 1 /\ calls[1].err = NoErr
                    /\ fetched.status # PRStatusMerged
                    /\ ~Contains(fetched.reviewers, old)
              /\ last'.err = ErrNoAvailableReviewer => n = 3 /\ calls[3].err = NoErr
              /\ n >= 2 =>
                    fetched.status # PRStatusMerged /\ Contains(fetched.reviewers, old)
              /\ db' # db => n = 4 /\ calls[4].err = NoErr]_vars

\* PRReassign of a merged PR, for a user who is not one of its reviewers, has
\* answered ErrCanNotReassing.
C28_Witness ==
    /\ last.op = "PRReassign"
    /\ Fetched.status = PRStatusMerged
    /\ Fetched.reviewers # <<>>
    /\ ~Contains(Fetched.reviewers, last.args[2])
    /\ last.err = ErrCanNotReassing

\* C29: PRMerge and PRReassign return no PR with an error and a PR with none.
C29_ErrorMeansNoPR ==
    (last.op \in {"PRMerge", "PRReassign"}) =>
        /\ last.err # NoErr => last.ret = <<>>
        /\ last.ret # <<>> => last.err = NoErr
        /\ last.err = NoErr => Len(last.ret) = 1

\* PRMerge has fetched an open PR and failed at the update.
C29_Witness ==
    /\ last.op = "PRMerge"
    /\ Len(last.calls) = 2
    /\ Fetched.status = PRStatusOpen
    /\ Fetched.reviewers # <<>>
    /\ last.err # NoErr
    /\ last.ret = <<>>

\* PRReassign has failed at the replace, after the three reads.
C29_WitnessReassign ==
    /\ last.op = "PRReassign"
    /\ Len(last.calls) = 4
    /\ last.err # NoErr
    /\ last.ret = <<>>

\* C30: TeamAdd creates the team first and then the members in list order, each
\* with its team reference set to the new team's id; it stops at the first member
\* that cannot be created; after a success every member references the team.
C30_TeamAddOrder ==
    last.op = "TeamAdd" =>
        LET calls == last.calls
            n == Len(calls)
            members == last.args[2]
            teamID == calls[1].val
        IN  /\ n \in 1..(1 + Len(members))
            /\ calls[1].fn = "TeamRepo.Create"
            /\ calls[1].args = <<last.args[1]>>
            /\ \A i \in 2..n :
                  /\ calls[i].fn = "UserRepo.Create"
                  /\ calls[i].args = <<i - 1, teamID, members[i - 1].active>>
                  /\ calls[i - 1].err = NoErr
            /\ n < 1 + Len(members) => calls[n].err # NoErr
            /\ last.err = NoErr =>
                  /\ n = 1 + Len(members)
                  /\ db.teams[teamID] = last.args[1]
                  /\ last.ret[1].id = teamID
                  /\ \A i \in DOMAIN members :
                        /\ last.ret[1].members[i].team = teamID
                        /\ db.users[calls[i + 1].val].team = teamID
                        /\ db.users[calls[i + 1].val].active = members[i].active

\* TeamAdd has created a team and its three members.
C30_Witness ==
    /\ last.op = "TeamAdd"
    /\ last.err = NoErr
    /\ Len(last.args[2]) = 3
    /\ Len(last.calls) = 4

\* TeamAdd has stopped at its first member; two more were never submitted.
C30_WitnessStop ==
    /\ last.op = "TeamAdd"
    /\ Len(last.args[2]) = 3
    /\ Len(last.calls) = 2
    /\ last.calls[2].err # NoErr

\* The repository calls a method makes at most: CreatePR and PRReassign four,
\* PRMerge, TeamGet and UsersSetIsActive two, TeamAdd one and one per member.
MaxCalls(op, args) ==
    CASE op = "CreatePR" -> 4
      [] op = "PRReassign" -> 4
      [] op = "TeamAdd" -> 1 + Len(args[2])
      [] OTHER -> 2

\* C24: every operation terminates: each repository call runs its unit of work at
\* most cfg.MaxAttempts times, each operation makes a bounded number of repository
\* calls, and a request that has started returns as long as it is scheduled.
C24_Terminates ==
    /\ [](inflight # <<>> =>
            LET f == inflight[1]
            IN  /\ Len(f.r.calls) \in 1..MaxCalls(f.op, f.args)
                /\ \A i \in DOMAIN f.r.calls :
                      f.r.calls[i].attempts \in 1..cfg.MaxAttempts
                /\ f.i \in DOMAIN f.r.calls
                /\ f.k \in 1..cfg.MaxAttempts)
    /\ (inflight # <<>>) ~> (inflight = <<>> /\ last # Idle)

\* TeamAdd of three members has returned after four repository calls, the last
\* of them tried as often as configured, more than once.
C24_Witness ==
    /\ inflight = <<>>
    /\ last.op = "TeamAdd"
    /\ Len(last.calls) = 4
    /\ cfg.MaxAttempts = MaxRetryAttempts
    /\ last.calls[4].attempts = cfg.MaxAttempts
    /\ cfg.MaxAttempts > 1

\* ------------------------------------------------ C31..C37: races and the author
\* C31: after any sequence or interleaving of CreatePR, PRReassign and PRMerge,
\* every PR has at most two persisted reviewer rows.  The rows of a PR are a set keyed by
\* (pull_request_id, id), so no user is a reviewer of a PR twice.
C31_AtMostTwoReviewers ==
    \A p \in PRIDs : Cardinality(ReviewersOf(db, p)) <= 2

\* The last request allowed is a reassignment that has succeeded, and the PR has
\* two reviewers.
C31_Witness ==
    /\ last.op = "PRReassign"
    /\ last.err = NoErr
    /\ inflight = <<>>
    /\ served = MaxRequests
    /\ Len(last.ret[1].reviewers) = 2
    /\ Cardinality(ReviewersOf(db, last.args[1])) = 2

\* C32: every PRReassign that succeeds leaves the number of reviewer rows of its
\* PR as it was when its replace statement ran, also when another PRReassign of
\* the same PR has committed between its reads and that statement.
C32_RowCountPreserved ==
    [][(last'.op = "PRReassign" /\ last'.err = NoErr) =>
          Cardinality(ReviewersOf(db', last'.args[1])) =
              Cardinality(ReviewersOf(db, last'.args[1]))]_vars

\* C33: once the persisted status of a PR is MERGED its reviewer rows never
\* change, also when a PRReassign that fetched the PR while it was OPEN runs its
\* replace statement after a PRMerge has committed.
C33_MergedFreezesReviewers ==
    [][\A id \in PRIDs :
          (PRExists(db, id) /\ db.prs[id].status = PRStatusMerged) =>
              ReviewersOf(db', id) = ReviewersOf(db, id)]_vars

\* C34: once the merge timestamp of a PR is set it is never overwritten, also
\* when a PRMerge that fetched the PR before another PRMerge committed runs its
\* update afterwards.
C34_MergedAtWrittenOnce ==
    [][\A id \in PRIDs :
          (PRExists(db, id) /\ db.prs[id].mergedAt # NilID) =>
              db'.prs[id].mergedAt = db.prs[id].mergedAt]_vars

\* C35: when PRReassign succeeds, the reviewer ids it returns are the reviewer
\* rows of the PR at its commit, under any interleaving with other PRReassign.
C35_ReturnedIsPersisted ==
    [][(last'.op = "PRReassign" /\ last'.err = NoErr) =>
          {last'.ret[1].reviewers[i] : i \in DOMAIN last'.ret[1].reviewers} =
              ReviewersOf(db', last'.args[1])]_vars

\* C36: a PRReassign that succeeds has not selected the author of the PR as the
\* replacement, and when the reviewers of the PR did not include the author they
\* still do not, also when the author is an active member of the team.
C36_AuthorNeverSelected ==
    [][(last'.op = "PRReassign" /\ last'.err = NoErr) =>
          LET prID == last'.args[1]
              author == AuthorOfPR(db, prID)
          IN  /\ last'.calls[4].args[3] # author
              /\ author \notin ReviewersOf(db, prID) =>
                    author \notin ReviewersOf(db', prID)]_vars

====
